---- MODULE Spec2Model ----
\* The image store of Plume (src/src/store/imageStore.ts): the image collection,
\* the sequential compression loop (startCompression), the backend progress
\* listener and the intake of files (addImages), as a state machine.
EXTENDS Integers, Sequences, FiniteSets, TLC

\* ------------------------------------------------------------------ bounds
MaxImages == 2      \* images ever created (ids 1..MaxImages)
MaxRuns == 2        \* invocations of startCompression that may overlap
MaxPathList == 1    \* length of the path list of one addImages call
MaxListens == 2     \* listeners registered or being registered on the channel
MaxAdds == 2        \* invocations of addImages that may overlap
MaxDropList == 2    \* length of the path list of one call, where intake is studied

Ids == 1..MaxImages
Runs == 1..MaxRuns
Paths == {"a.jpg", "b.png"}
PathLists == UNION {[1..n -> Paths] : n \in 1..MaxPathList}
Adders == 1..MaxAdds
DropLists == UNION {[1..n -> Paths] : n \in 1..MaxDropList}

Undefined == -1                 \* an optional number that is not set
NoPath == "undefined"           \* an optional string that is not set
CompressedSizes == {500}        \* compressed_size of a backend result
FileSizes == {0}                \* size of get_file_information beside the runs: empty files
IntakeSizes == {2048}           \* size of get_file_information where intake is studied
SimTicks == {50}                \* values a progress session emits before completion
EventFractions == {1000}        \* progress of a backend event, in thousandths of 1.0
Stages == {"Compressing", "Error"}
CompressOutcomes == {"ok", "failed", "noResult", "rejected"}

VARIABLES
    images,              \* ImageStore.images: sequence of image records
    compressionState,    \* ImageStore.compressionState
    isProcessing,        \* ImageStore.isProcessing
    compressionSettings, \* ImageStore.compressionSettings
    progressState,       \* ImageStore.progressState: id -> progress (Undefined: no key)
    sessions,            \* progressService: ids with a running progress session
    run,                 \* the invocations of startCompression
    add,                 \* the invocations of addImages
    nextId,              \* the next image id addImages generates
    bridge,              \* the 'compression-progress' channel: its listeners
    resolver,            \* a call of resolveCompressionParams: arguments, result
    hook                 \* the effect of one useDragDropGlobal instance

vars == <<images, compressionState, isProcessing, compressionSettings,
          progressState, sessions, run, add, nextId, bridge, resolver, hook>>

\* what the actions of the store leave alone
outside == <<bridge, resolver, hook>>

\* ------------------------------------------------------------------ ImageEntity
\* The entity of @/domain/image/entity, an immutable record. Its transitions
\* follow the state machine of the design: toProcessing requires pending,
\* toCompleted and toError require processing, and a transition applied in
\* another status throws (Rejects below); updateProgress does nothing unless the
\* image is processing and otherwise clamps and stores the value.
NewImage(id, path, originalSize) ==
    [id |-> id, path |-> path, originalSize |-> originalSize,
     status |-> "pending", progress |-> 0,
     compressedSize |-> Undefined, outputPath |-> NoPath]

isPending(img) == img.status = "pending"
isProcessingImage(img) == img.status = "processing"
isCompleted(img) == img.status = "completed"

Clamp(v) == IF v < 0 THEN 0 ELSE IF v > 100 THEN 100 ELSE v

toProcessing(img) == [img EXCEPT !.status = "processing", !.progress = 0]
toCompleted(img, size, path) ==
    [img EXCEPT !.status = "completed", !.compressedSize = size, !.outputPath = path]
toError(img) == [img EXCEPT !.status = "error"]
withStatusPending(img) == [img EXCEPT !.status = "pending"]
updateProgress(img, v) ==
    IF isProcessingImage(img) THEN [img EXCEPT !.progress = Clamp(v)] ELSE img

\* ------------------------------------------------------------------ collection helpers
\* detectImageFormat(fileName): the format of an image, by its extension
FormatOf(path) ==
    CASE path = "a.jpg" -> "JPEG" [] path = "b.png" -> "PNG" [] OTHER -> "OTHER"

HasImage(imgs, id) == \E i \in DOMAIN imgs : imgs[i].id = id
ImageOf(imgs, id) == imgs[CHOOSE i \in DOMAIN imgs : imgs[i].id = id]
\* images.map(img => img.id === id ? img.transition() : img) throws when the
\* image is there and its status is not the one the transition requires
Rejects(imgs, id, required) ==
    \E i \in DOMAIN imgs : imgs[i].id = id /\ imgs[i].status # required
\* images.map(img => img.id === id ? img.toProcessing(0) : img), and the like
MapToProcessing(imgs, id) ==
    [i \in DOMAIN imgs |-> IF imgs[i].id = id THEN toProcessing(imgs[i]) ELSE imgs[i]]
MapToCompleted(imgs, id, size, path) ==
    [i \in DOMAIN imgs |->
        IF imgs[i].id = id THEN toCompleted(imgs[i], size, path) ELSE imgs[i]]
MapToError(imgs, id) ==
    [i \in DOMAIN imgs |-> IF imgs[i].id = id THEN toError(imgs[i]) ELSE imgs[i]]
MapUpdateProgress(imgs, id, v) ==
    [i \in DOMAIN imgs |-> IF imgs[i].id = id THEN updateProgress(imgs[i], v) ELSE imgs[i]]
IdsOf(imgs) == [i \in DOMAIN imgs |-> imgs[i].id]

\* ------------------------------------------------------------------ store
Store == [images |-> images, sessions |-> sessions, progressState |-> progressState]

\* updateImageProgress that keeps the larger of the old and the new progress
updateImageProgress_Monotone(st, id, progress) ==
    IF HasImage(st.images, id) /\ ImageOf(st.images, id).progress > progress
    THEN st
    ELSE [st EXCEPT !.images = MapUpdateProgress(@, id, progress),
                    !.progressState = [@ EXCEPT ![id] = progress]]

\* updateImageProgress (a set of the whole collection and of progressState)
updateImageProgress(st, id, progress) ==
    [st EXCEPT !.images = MapUpdateProgress(@, id, progress),
               !.progressState = [@ EXCEPT ![id] = progress]]

\* progressService: the sessions of the progress estimator
startSmartProgress(st, id) == [st EXCEPT !.sessions = @ \cup {id}]
completeImageProgress(st, id) ==
    IF id \in st.sessions
    THEN updateImageProgress([st EXCEPT !.sessions = @ \ {id}], id, 100)
    ELSE st
errorImageProgress(st, id) == [st EXCEPT !.sessions = @ \ {id}]

\* Math.round(progress * 100) of a progress given in thousandths
ProgressPercent(fraction) == (fraction + 5) \div 10

\* ------------------------------------------------------------------ startCompression
\* The record of an invocation: where it is suspended (pc), its snapshot
\* pendingImages (ids), the position of the loop, the images it moved to
\* processing, the compressionSettings it read when it was called, the request of
\* its compress_image call while that call is pending, and its recording calls;
\* firstNew notes, while the invocation is active, the first id that was not
\* in the collection when the snapshot was taken
DefaultSettings == [quality |-> 80, keepOriginalFormat |-> FALSE]
NoRequest == [quality |-> 0, format |-> "none"]
IdleRun == [pc |-> "idle", snap |-> <<>>, idx |-> 0, started |-> <<>>,
            settings |-> DefaultSettings, request |-> NoRequest, firstNew |-> 0,
            primaryRejected |-> 0, fallbackCalls |-> 0]

\* request: { quality: compressionSettings.quality,
\*            format: compressionSettings.keepOriginalFormat ? 'auto' : 'webp' }
\* (file_path and imageId name the image; no lossy member is sent)
CompressRequest(settings) ==
    [quality |-> settings.quality,
     format |-> IF settings.keepOriginalFormat THEN "auto" ELSE "webp"]
Ended == {"returned", "threw"}
Free == {"idle"} \cup Ended
Active(r) == run[r].pc \notin Free

\* the guard left out: a call starts a run whatever isProcessing is
SkipsRun_Never(processing) == FALSE

\* if (isProcessing) return
SkipsRun(processing) == processing

\* images.filter(img => img.isPending()), as the ids of the snapshot
PendingImages(imgs) == IdsOf(SelectSeq(imgs, isPending))

\* the guard cleared after the loop instead of in a finally: an escaping
\* exception leaves it set
GuardAfterExit_NoFinally(exit) == exit = "threw"

\* finally { set({ isProcessing: false }) }
GuardAfterExit(exit) == FALSE

\* set({ compressionState: 'completed' }) is reached only when the loop returns
StateAfterExit(exit, current) == IF exit = "returned" THEN "completed" ELSE current

\* The loop from snapshot position k up to its next await or its exit.
\* Result: the store, the position, the ids moved to processing, and
\* exit: the await the run is suspended at ("smartProgress", "compress",
\* "recordWithTime", "recordFallback"), or "returned", or "threw" when an
\* exception left the for loop (only the finally block runs then).
RECURSIVE ProcessFrom(_, _, _, _)
RECURSIVE CatchBlock(_, _, _, _)

\* catch (error) { errorImageProgress; set(toError); toast } and the next iteration;
\* a toError that throws here leaves the loop
CatchBlock(st, snap, k, started) ==
    LET id == snap[k]
        s1 == errorImageProgress(st, id)
    IN  IF Rejects(s1.images, id, "processing")
        THEN [st |-> s1, idx |-> k, started |-> started, exit |-> "threw"]
        ELSE ProcessFrom([s1 EXCEPT !.images = MapToError(@, id)],
                         snap, k + 1, started)

\* for (const image of pendingImages) { try { set(toProcessing(0)); await startSmartProgress
ProcessFrom(st, snap, k, started) ==
    IF k > Len(snap)
    THEN [st |-> st, idx |-> k, started |-> started, exit |-> "returned"]
    ELSE LET id == snap[k]
         IN  IF Rejects(st.images, id, "pending")
             THEN CatchBlock(st, snap, k, started)
             ELSE [st |-> startSmartProgress(
                              [st EXCEPT !.images = MapToProcessing(@, id)], id),
                   idx |-> k,
                   started |-> IF HasImage(st.images, id) THEN Append(started, id)
                               ELSE started,
                   exit |-> "smartProgress"]

\* the else branch without its set(toError): the image is left as it is
FailureBranch_NoTransition(st, snap, k, started) ==
    ProcessFrom(errorImageProgress(st, snap[k]), snap, k + 1, started)

\* else { errorImageProgress; set(toError); toast }: the response is no success
FailureBranch(st, snap, k, started) ==
    LET id == snap[k]
        s1 == errorImageProgress(st, id)
    IN  IF Rejects(s1.images, id, "processing")
        THEN CatchBlock(s1, snap, k, started)
        ELSE ProcessFrom([s1 EXCEPT !.images = MapToError(@, id)],
                         snap, k + 1, started)

\* the success branch with its two calls in the other order: set(toCompleted),
\* then completeImageProgress
SuccessBranch_CompleteAfter(st, snap, k, started, size) ==
    LET id == snap[k]
    IN  IF Rejects(st.images, id, "processing")
        THEN CatchBlock(st, snap, k, started)
        ELSE [st |-> completeImageProgress(
                         [st EXCEPT !.images = MapToCompleted(@, id, size, "out")], id),
              idx |-> k, started |-> started, exit |-> "recordWithTime"]

\* if (response.success && response.result) { completeImageProgress; set(toCompleted);
\* await invoke('record_compression_result_with_time')
SuccessBranch(st, snap, k, started, size) ==
    LET id == snap[k]
        s1 == completeImageProgress(st, id)
    IN  IF Rejects(s1.images, id, "processing")
        THEN CatchBlock(s1, snap, k, started)
        ELSE [st |-> [s1 EXCEPT !.images = MapToCompleted(@, id, size, "out")],
              idx |-> k, started |-> started, exit |-> "recordWithTime"]

\* the response tested by its success flag alone: a success without a result
\* payload is taken as a success
AfterCompress_SuccessOnly(st, snap, k, started, outcome, size) ==
    CASE outcome \in {"ok", "noResult"} -> SuccessBranch(st, snap, k, started, size)
      [] outcome = "failed" -> FailureBranch(st, snap, k, started)
      [] outcome = "rejected" -> CatchBlock(st, snap, k, started)

\* the code after `await invoke('compress_image')` for each way the call settles
AfterCompress(st, snap, k, started, outcome, size) ==
    CASE outcome = "ok" -> SuccessBranch(st, snap, k, started, size)
      [] outcome \in {"failed", "noResult"} -> FailureBranch(st, snap, k, started)
      [] outcome = "rejected" -> CatchBlock(st, snap, k, started)

\* the fallback recording issued after the primary one whatever its outcome
NeedsFallback_Always(outcome) == TRUE

\* catch (dbError) { await invoke('record_compression_result') }
NeedsFallback(outcome) == outcome = "rejected"

\* The part of the store a run writes, as one value
Current == [images |-> images, sessions |-> sessions, progressState |-> progressState,
            run |-> run, isProcessing |-> isProcessing,
            compressionState |-> compressionState]

Becomes(next) ==
    /\ images' = next.images
    /\ sessions' = next.sessions
    /\ progressState' = next.progressState
    /\ run' = next.run
    /\ isProcessing' = next.isProcessing
    /\ compressionState' = next.compressionState

\* the first id not yet in the collection: that of the first image addImages
\* is still building, or the next tempId
FirstNew ==
    LET building == {a \in Adders : add[a].pc = "fileInfo"}
        ids == {nextId} \cup {add[a].tempId : a \in building}
                        \cup UNION {{add[a].newImages[i].id : i \in DOMAIN add[a].newImages}
                                        : a \in building}
    IN  CHOOSE id \in ids : \A other \in ids : id <= other

\* The store after a step of run r that ended in result res: the record of r, and
\* what the exit of the loop sets (processing, state: the values before the exit)
AfterStep(r, snap, settings, res, rejected, fallbacks, processing, state) ==
    [images |-> res.st.images,
     sessions |-> res.st.sessions,
     progressState |-> res.st.progressState,
     run |-> [run EXCEPT ![r] =
                [pc |-> res.exit, snap |-> snap, idx |-> res.idx,
                 started |-> res.started,
                 settings |-> settings, request |-> NoRequest,
                 firstNew |-> IF res.exit \in Ended THEN 0
                              ELSE IF run[r].pc \in Free THEN FirstNew
                              ELSE run[r].firstNew,
                 primaryRejected |-> IF res.exit \in Ended THEN 0 ELSE rejected,
                 fallbackCalls |-> IF res.exit \in Ended THEN 0 ELSE fallbacks]],
     isProcessing |-> IF res.exit \in Ended THEN GuardAfterExit(res.exit)
                      ELSE processing,
     compressionState |-> StateAfterExit(res.exit, state)]

LowestFree(r) == run[r].pc \in Free /\ \A q \in Runs : q < r => run[q].pc \notin Free

\* startCompression up to its first await, run as invocation r
StartResult(r) ==
    LET snap == PendingImages(images)
    IN  IF SkipsRun(isProcessing) \/ snap = <<>>
        THEN Current
        ELSE AfterStep(r, snap, compressionSettings,
                       ProcessFrom(Store, snap, 1, <<>>), 0, 0,
                       TRUE, "processing")

StartCompression ==
    /\ \E r \in Runs : LowestFree(r) /\ Becomes(StartResult(r))
    /\ UNCHANGED <<compressionSettings, add, nextId>>
    /\ UNCHANGED outside

\* compressImage(imageId): startCompression when the image is there and pending
CompressImage(id) ==
    /\ HasImage(images, id) /\ isPending(ImageOf(images, id))
    /\ \E r \in Runs : LowestFree(r) /\ Becomes(StartResult(r))
    /\ UNCHANGED <<compressionSettings, add, nextId>>
    /\ UNCHANGED outside

\* startSmartProgress resolved: invoke('compress_image') is issued and awaited
SmartProgressResolved(r) ==
    /\ run[r].pc = "smartProgress"
    /\ run' = [run EXCEPT ![r].pc = "compress",
                          ![r].request = CompressRequest(run[r].settings)]
    /\ UNCHANGED <<images, compressionState, isProcessing, compressionSettings,
                   progressState, sessions, add, nextId>>
    /\ UNCHANGED outside

\* invoke('compress_image') settled
CompressSettled(r, outcome, size) ==
    /\ run[r].pc = "compress"
    /\ Becomes(AfterStep(r, run[r].snap, run[r].settings,
                         AfterCompress(Store, run[r].snap, run[r].idx, run[r].started,
                                       outcome, size),
                         run[r].primaryRejected, run[r].fallbackCalls,
                         isProcessing, compressionState))
    /\ UNCHANGED <<compressionSettings, add, nextId>>
    /\ UNCHANGED outside

\* invoke('record_compression_result_with_time') settled
RecordWithTimeSettled(r, outcome) ==
    /\ run[r].pc = "recordWithTime"
    /\ LET rejected == run[r].primaryRejected + (IF outcome = "rejected" THEN 1 ELSE 0)
       IN  IF NeedsFallback(outcome)
           THEN /\ run' = [run EXCEPT ![r].pc = "recordFallback",
                                      ![r].primaryRejected = rejected,
                                      ![r].fallbackCalls = @ + 1]
                /\ UNCHANGED <<images, compressionState, isProcessing, progressState,
                               sessions>>
           ELSE Becomes(AfterStep(r, run[r].snap, run[r].settings,
                                  ProcessFrom(Store, run[r].snap, run[r].idx + 1,
                                              run[r].started),
                                  rejected, run[r].fallbackCalls,
                                  isProcessing, compressionState))
    /\ UNCHANGED <<compressionSettings, add, nextId>>
    /\ UNCHANGED outside

\* invoke('record_compression_result') settled: both outcomes go on with the loop
RecordFallbackSettled(r, outcome) ==
    /\ run[r].pc = "recordFallback"
    /\ outcome \in {"ok", "rejected"}
    /\ Becomes(AfterStep(r, run[r].snap, run[r].settings,
                         ProcessFrom(Store, run[r].snap, run[r].idx + 1, run[r].started),
                         run[r].primaryRejected, run[r].fallbackCalls,
                         isProcessing, compressionState))
    /\ UNCHANGED <<compressionSettings, add, nextId>>
    /\ UNCHANGED outside

\* ------------------------------------------------------------------ the other store actions
\* the reset applied to every image that has left pending
ResetApplies_NotPending(img) == img.status # "pending"

\* resetProcessingImages: img.status === 'processing' ? img.withStatus('pending') : img
ResetApplies(img) == img.status = "processing"

ResetProcessingImages ==
    /\ images' = [i \in DOMAIN images |->
                    IF ResetApplies(images[i]) THEN withStatusPending(images[i])
                    ELSE images[i]]
    /\ isProcessing' = FALSE
    /\ compressionState' = "idle"
    /\ UNCHANGED <<compressionSettings, progressState, sessions, run, add, nextId>>
    /\ UNCHANGED outside

RemoveImage(id) ==
    /\ images' = SelectSeq(images, LAMBDA img : img.id # id)
    /\ UNCHANGED <<compressionState, isProcessing, compressionSettings, progressState,
                   sessions, run, add, nextId>>
    /\ UNCHANGED outside

ClearImages ==
    /\ images' = <<>>
    /\ compressionState' = "idle"
    /\ progressState' = [i \in Ids |-> Undefined]
    /\ UNCHANGED <<isProcessing, compressionSettings, sessions, run, add, nextId>>
    /\ UNCHANGED outside

\* a tick of the progress session of id: onProgress -> updateImageProgress
SimTick(id, v) ==
    /\ id \in sessions
    /\ LET st == updateImageProgress(Store, id, v)
       IN  /\ images' = st.images
           /\ progressState' = st.progressState
    /\ UNCHANGED <<compressionState, isProcessing, compressionSettings, sessions, run,
                   add, nextId>>
    /\ UNCHANGED outside

\* the listener with a transition to error that takes the image in any status
onCompressionProgress_AnyStatus(st, id, stage, fraction) ==
    LET s1 == updateImageProgress(st, id, ProgressPercent(fraction))
    IN  IF stage = "Error"
        THEN [s1 EXCEPT !.images = MapToError(@, id)]
        ELSE s1

\* the listener of 'compression-progress': updateImageProgress with the rounded
\* percent, then on stage Error set(toError), which throws out of the listener
\* when the image is not processing (the store is then as updateImageProgress
\* left it)
onCompressionProgress(st, id, stage, fraction) ==
    LET s1 == updateImageProgress(st, id, ProgressPercent(fraction))
    IN  IF stage = "Error" /\ ~Rejects(s1.images, id, "processing")
        THEN [s1 EXCEPT !.images = MapToError(@, id)]
        ELSE s1

\* one event handled by each of n registered listeners in turn
RECURSIVE HandledBy(_, _, _, _, _)
HandledBy(st, n, id, stage, fraction) ==
    IF n = 0 THEN st
    ELSE HandledBy(onCompressionProgress(st, id, stage, fraction), n - 1,
                   id, stage, fraction)

\* an event of the backend for an image id it was given, delivered to every
\* listener of the channel
BackendEvent(id, stage, fraction) ==
    /\ id < nextId
    /\ bridge.listeners >= 1
    /\ LET st == HandledBy(Store, bridge.listeners, id, stage, fraction)
       IN  /\ images' = st.images
           /\ progressState' = st.progressState
    /\ UNCHANGED <<compressionState, isProcessing, compressionSettings, sessions, run,
                   add, nextId>>
    /\ UNCHANGED outside

\* ------------------------------------------------------------------ initializeProgressListener
\* the `unlisten` a call of initializeProgressListener declares: a new local
\* variable, undefined when setupListener tests it
UnlistenAtSetup == "undefined"

\* the listeners left by the test `if (unlisten) { unlisten() }` of a call
AfterTeardown(listeners) ==
    IF UnlistenAtSetup # "undefined" THEN 0 ELSE listeners

\* initializeProgressListener up to `await listen(...)`
InitializeProgressListener ==
    /\ bridge.listeners + bridge.listening < MaxListens
    /\ bridge' = [listeners |-> AfterTeardown(bridge.listeners),
                  listening |-> bridge.listening + 1]
    /\ UNCHANGED <<images, compressionState, isProcessing, compressionSettings,
                   progressState, sessions, run, add, nextId, resolver, hook>>

\* listen('compression-progress', ...) settled: the listener is registered, or
\* the catch block logs the error
ListenSettled(outcome) ==
    /\ bridge.listening >= 1
    /\ outcome \in {"ok", "rejected"}
    /\ bridge' = [listeners |-> bridge.listeners + (IF outcome = "ok" THEN 1 ELSE 0),
                  listening |-> bridge.listening - 1]
    /\ UNCHANGED <<images, compressionState, isProcessing, compressionSettings,
                   progressState, sessions, run, add, nextId, resolver, hook>>

\* ------------------------------------------------------------------ addImages
IdleAdd == [pc |-> "idle", paths |-> <<>>, k |-> 0, tempId |-> 0, newImages |-> <<>>]

\* the tempIds the invocations in progress have still to generate
RECURSIVE ToGenerate(_)
ToGenerate(callers) ==
    IF callers = {} THEN 0
    ELSE LET a == CHOOSE c \in callers : TRUE
         IN  (IF add[a].pc = "fileInfo" THEN Len(add[a].paths) - add[a].k ELSE 0)
             + ToGenerate(callers \ {a})

\* filePaths.filter(path => !existingPaths.has(path))
UniqueFilePaths(imgs, filePaths) ==
    LET existingPaths == {imgs[i].path : i \in DOMAIN imgs}
    IN  SelectSeq(filePaths, LAMBDA p : p \notin existingPaths)

\* addImages, invocation a, up to its first await: the paths not in the
\* collection, the first tempId
AddImages(a, filePaths) ==
    /\ add[a].pc = "idle"
    /\ LET uniqueFilePaths == UniqueFilePaths(images, filePaths)
       IN  IF uniqueFilePaths = <<>>
           THEN UNCHANGED <<add, nextId>>
           ELSE /\ nextId + Len(uniqueFilePaths) - 1 + ToGenerate(Adders) <= MaxImages
                /\ add' = [add EXCEPT ![a] =
                             [pc |-> "fileInfo", paths |-> uniqueFilePaths, k |-> 1,
                              tempId |-> nextId, newImages |-> <<>>]]
                /\ nextId' = nextId + 1
    /\ UNCHANGED <<images, compressionState, isProcessing, compressionSettings,
                   progressState, sessions, run>>
    /\ UNCHANGED outside

\* handleExternalDrop: await get().addImages(filePaths)
HandleExternalDrop(a, filePaths) ==
    /\ filePaths \in DropLists
    /\ AddImages(a, filePaths)

\* the size taken from a lookup that rejected
FileSize_Unchecked(outcome, size) == size

\* let fileSize = 0; try { fileSize = (await invoke(...)).size } catch { warn }
FileSize(outcome, size) == IF outcome = "ok" THEN size ELSE 0

\* newImages after the lookup of path k settled: the image of that path is pushed
Pushed(call, outcome, size) ==
    Append(call.newImages,
           NewImage(call.tempId, call.paths[call.k], FileSize(outcome, size)))

\* invoke('get_file_information') settled for path k of invocation a: the image
\* is built; after the last path, set({ images: [...state.images, ...newImages] })
FileInfoSettled(a, outcome, size) ==
    /\ add[a].pc = "fileInfo"
    /\ outcome \in {"ok", "rejected"}
    /\ LET newImages == Pushed(add[a], outcome, size)
       IN  IF add[a].k < Len(add[a].paths)
           THEN /\ add' = [add EXCEPT ![a].k = @ + 1, ![a].tempId = nextId,
                                      ![a].newImages = newImages]
                /\ nextId' = nextId + 1
                /\ UNCHANGED images
           ELSE /\ images' = images \o newImages
                /\ add' = [add EXCEPT ![a] = IdleAdd]
                /\ UNCHANGED nextId
    /\ UNCHANGED <<compressionState, isProcessing, compressionSettings, progressState,
                   sessions, run>>
    /\ UNCHANGED outside

\* ------------------------------------------------------------------ resolveCompressionParams
OutputFormats == {"keep", "webp", "jpeg", "png"}
Levels == {"light", "balanced", "aggressive"}
ImageFormats == {"JPEG", "PNG", "WEBP", "HEIC", "OTHER"}

QUALITY_MAP(level) ==
    CASE level = "light" -> 100 [] level = "balanced" -> 80 [] level = "aggressive" -> 60

\* the jpeg qualities taken from the table of webp
MOZJPEG_QUALITY_MAP_AsWebp(level) ==
    CASE level = "light" -> 100 [] level = "balanced" -> 80 [] level = "aggressive" -> 60

MOZJPEG_QUALITY_MAP(level) ==
    CASE level = "light" -> 92 [] level = "balanced" -> 80 [] level = "aggressive" -> 60

\* keep for every source, HEIC included, is 'auto'
EffectiveFormat_NoHeic(outputFormat, imageFormat) ==
    IF outputFormat = "keep" THEN "auto" ELSE outputFormat

\* if (outputFormat === 'keep') { effectiveFormat = isHeic ? 'jpeg' : 'auto' } else ...
EffectiveFormat(outputFormat, imageFormat) ==
    LET isHeic == imageFormat = "HEIC"
    IN  IF outputFormat = "keep"
        THEN (IF isHeic THEN "jpeg" ELSE "auto")
        ELSE outputFormat

\* the returns of the switch: by QUALITY_MAP, by MOZJPEG_QUALITY_MAP, lossless
ByQualityMap(level, format) ==
    LET isLossless == level = "light"
    IN  [quality |-> QUALITY_MAP(level), format |-> format, lossy |-> ~isLossless]
ByMozjpegMap(level, format) ==
    [quality |-> MOZJPEG_QUALITY_MAP(level), format |-> format, lossy |-> TRUE]
Lossless(format) == [quality |-> 100, format |-> format, lossy |-> FALSE]

\* the switch with case 'png' answering by QUALITY_MAP as case 'webp' does
Switch_PngByLevel(effectiveFormat, level, imageFormat) ==
    CASE effectiveFormat = "webp" -> ByQualityMap(level, "webp")
      [] effectiveFormat = "jpeg" -> ByMozjpegMap(level, "jpeg")
      [] effectiveFormat = "png" -> ByQualityMap(level, "png")
      [] effectiveFormat = "auto" ->
           IF imageFormat = "WEBP" THEN ByQualityMap(level, "auto")
           ELSE IF imageFormat = "JPEG" THEN ByMozjpegMap(level, "auto")
           ELSE Lossless("auto")

\* switch (effectiveFormat) { case 'webp': ... case 'jpeg': ... case 'png': ... case 'auto': ... }
Switch(effectiveFormat, level, imageFormat) ==
    CASE effectiveFormat = "webp" -> ByQualityMap(level, "webp")
      [] effectiveFormat = "jpeg" -> ByMozjpegMap(level, "jpeg")
      [] effectiveFormat = "png" -> Lossless("png")
      [] effectiveFormat = "auto" ->
           IF imageFormat = "WEBP" THEN ByQualityMap(level, "auto")
           ELSE IF imageFormat = "JPEG" THEN ByMozjpegMap(level, "auto")
           ELSE Lossless("auto")

resolveCompressionParams(outputFormat, level, imageFormat) ==
    Switch(EffectiveFormat(outputFormat, imageFormat), level, imageFormat)

\* a call of the function: its arguments, and its result once it has returned
NoParams == [quality |-> 0, format |-> "none", lossy |-> FALSE]
ResolverCall(outputFormat, level, imageFormat) ==
    [outputFormat |-> outputFormat, level |-> level, imageFormat |-> imageFormat,
     result |-> NoParams]

Resolve ==
    /\ resolver.result = NoParams
    /\ resolver' = [resolver EXCEPT !.result =
                       resolveCompressionParams(resolver.outputFormat, resolver.level,
                                                resolver.imageFormat)]
    /\ UNCHANGED <<images, compressionState, isProcessing, compressionSettings,
                   progressState, sessions, run, add, nextId, bridge, hook>>

\* ------------------------------------------------------------------ useDragDropGlobal
\* The effect of one instance of the hook: where setupListener is suspended
\* (pc), its locals `cancelled` and `unlisten` (set or not), and whether the
\* listener it registered with onDragDropEvent is subscribed
Unmounted == [pc |-> "unmounted", cancelled |-> FALSE, unlisten |-> FALSE,
              subscribed |-> FALSE]
storeVars == <<images, compressionState, isProcessing, compressionSettings,
               progressState, sessions, run, add, nextId>>

\* useEffect runs: setupListener() up to `await import(...)`
Mount ==
    /\ hook.pc = "unmounted"
    /\ hook' = [hook EXCEPT !.pc = "import"]
    /\ UNCHANGED <<storeVars, bridge, resolver>>

\* if (unlisten) { unlisten() }
SubscribedAfterCleanup(unlisten, subscribed) ==
    IF unlisten THEN FALSE ELSE subscribed

\* if (cancelled) return
ReturnsIfCancelled(cancelled) == cancelled

\* the dynamic import settled: return if cancelled, else onDragDropEvent(...) is
\* called and awaited; a rejection goes to the catch block
ImportSettled(outcome) ==
    /\ hook.pc = "import"
    /\ outcome \in {"ok", "rejected"}
    /\ hook' = [hook EXCEPT !.pc =
                   IF outcome = "ok" /\ ~ReturnsIfCancelled(hook.cancelled)
                   THEN "register" ELSE "done"]
    /\ UNCHANGED <<storeVars, bridge, resolver>>

\* onDragDropEvent(...) settled: the listener is subscribed and `unlisten` is
\* assigned; a rejection goes to the catch block
RegisterSettled(outcome) ==
    /\ hook.pc = "register"
    /\ outcome \in {"ok", "rejected"}
    /\ hook' = [hook EXCEPT !.pc = "done",
                            !.unlisten = (outcome = "ok"),
                            !.subscribed = (outcome = "ok")]
    /\ UNCHANGED <<storeVars, bridge, resolver>>

\* the cleanup of the effect: cancelled = true; if (unlisten) unlisten()
Cleanup ==
    /\ hook.pc # "unmounted"
    /\ ~hook.cancelled
    /\ hook' = [hook EXCEPT !.cancelled = TRUE,
                            !.subscribed =
                                SubscribedAfterCleanup(hook.unlisten, hook.subscribed)]
    /\ UNCHANGED <<storeVars, bridge, resolver>>

\* a drop delivered to the subscribed listener: callbackRef.current(paths),
\* the callback being handleExternalDrop
DragDropEvent(a, filePaths) ==
    /\ hook.subscribed
    /\ HandleExternalDrop(a, filePaths)

\* ------------------------------------------------------------------ specification
\* the store as create() builds it
InitStore ==
    /\ images = <<>>
    /\ compressionState = "idle"
    /\ isProcessing = FALSE
    /\ compressionSettings = DefaultSettings
    /\ progressState = [i \in Ids |-> Undefined]
    /\ sessions = {}
    /\ run = [r \in Runs |-> IdleRun]
    /\ add = [a \in Adders |-> IdleAdd]
    /\ nextId = 1

\* The store once the application has started: its call of
\* initializeProgressListener has registered the listener of the channel
Init ==
    /\ InitStore
    /\ bridge = [listeners |-> 1, listening |-> 0]
    /\ resolver = ResolverCall("webp", "balanced", "OTHER")
    /\ hook = Unmounted

Next ==
    \/ StartCompression
    \/ \E id \in Ids : CompressImage(id)
    \/ \E r \in Runs : SmartProgressResolved(r)
    \/ \E r \in Runs, o \in CompressOutcomes, size \in CompressedSizes :
         CompressSettled(r, o, size)
    \/ \E r \in Runs, o \in {"ok", "rejected"} : RecordWithTimeSettled(r, o)
    \/ \E r \in Runs, o \in {"ok", "rejected"} : RecordFallbackSettled(r, o)
    \/ ResetProcessingImages
    \/ \E id \in Ids : RemoveImage(id)
    \/ ClearImages
    \/ \E id \in Ids, v \in SimTicks : SimTick(id, v)
    \/ \E id \in Ids, stage \in Stages, f \in EventFractions : BackendEvent(id, stage, f)
    \/ \E filePaths \in PathLists : AddImages(1, filePaths)
    \/ \E o \in {"ok", "rejected"}, size \in FileSizes : FileInfoSettled(1, o, size)

Spec == Init /\ [][Next]_vars

\* Every awaited call of a run settles: startSmartProgress, compress_image and
\* the two recording calls resolve or reject, and the run then goes on.
RunStep(r) ==
    \/ SmartProgressResolved(r)
    \/ \E o \in CompressOutcomes, size \in CompressedSizes : CompressSettled(r, o, size)
    \/ \E o \in {"ok", "rejected"} : RecordWithTimeSettled(r, o)
    \/ \E o \in {"ok", "rejected"} : RecordFallbackSettled(r, o)

FairSpec == Spec /\ \A r \in Runs : WF_vars(RunStep(r))

\* ------------------------------------------------------------------ settings
\* { ...state.compressionSettings, ...newSettings }
Merged(settings, newSettings) ==
    [f \in DOMAIN settings |->
        IF f \in DOMAIN newSettings THEN newSettings[f] ELSE settings[f]]

SetCompressionSettings(newSettings) ==
    /\ compressionSettings' = Merged(compressionSettings, newSettings)
    /\ UNCHANGED <<images, compressionState, isProcessing, progressState, sessions,
                   run, add, nextId>>
    /\ UNCHANGED outside

ToggleWebPConversion ==
    /\ compressionSettings' =
           [compressionSettings EXCEPT !.keepOriginalFormat = ~@]
    /\ UNCHANGED <<images, compressionState, isProcessing, progressState, sessions,
                   run, add, nextId>>
    /\ UNCHANGED outside

\* quality >= 90 ? 80 : 95
ToggleLossyMode ==
    /\ compressionSettings' =
           [compressionSettings EXCEPT !.quality = IF @ >= 90 THEN 80 ELSE 95]
    /\ UNCHANGED <<images, compressionState, isProcessing, progressState, sessions,
                   run, add, nextId>>
    /\ UNCHANGED outside

\* Math.max(1, Math.min(100, quality))
ClampQuality(quality) ==
    LET low == IF 100 < quality THEN 100 ELSE quality
    IN  IF 1 > low THEN 1 ELSE low

SetQuality(quality) ==
    /\ compressionSettings' = [compressionSettings EXCEPT !.quality = ClampQuality(quality)]
    /\ UNCHANGED <<images, compressionState, isProcessing, progressState, sessions,
                   run, add, nextId>>
    /\ UNCHANGED outside

\* The settings actions beside one caller of addImages and startCompression
QualityInputs == {0, 60, 150}
PartialSettings == {[quality |-> 150], [keepOriginalFormat |-> TRUE]}
SettingsNext ==
    \/ \E newSettings \in PartialSettings : SetCompressionSettings(newSettings)
    \/ ToggleWebPConversion
    \/ ToggleLossyMode
    \/ \E quality \in QualityInputs : SetQuality(quality)
    \/ \E filePaths \in PathLists : AddImages(1, filePaths)
    \/ \E o \in {"ok", "rejected"}, size \in FileSizes : FileInfoSettled(1, o, size)
    \/ StartCompression
    \/ \E r \in Runs : SmartProgressResolved(r)
    \/ \E r \in Runs, o \in CompressOutcomes, size \in CompressedSizes :
         CompressSettled(r, o, size)
    \/ \E r \in Runs, o \in {"ok", "rejected"} : RecordWithTimeSettled(r, o)
    \/ \E r \in Runs, o \in {"ok", "rejected"} : RecordFallbackSettled(r, o)

SettingsSpec == Init /\ [][SettingsNext]_vars

\* ------------------------------------------------------------------ the channel
\* The store as built, before any call of initializeProgressListener, with the
\* calls that register listeners, the events, and one caller of addImages and
\* startCompression
ListenerInit ==
    /\ InitStore
    /\ bridge = [listeners |-> 0, listening |-> 0]
    /\ resolver = ResolverCall("webp", "balanced", "OTHER")
    /\ hook = Unmounted

ListenerNext ==
    \/ InitializeProgressListener
    \/ \E o \in {"ok", "rejected"} : ListenSettled(o)
    \/ \E id \in Ids, stage \in Stages, f \in EventFractions : BackendEvent(id, stage, f)
    \/ \E filePaths \in PathLists : AddImages(1, filePaths)
    \/ \E o \in {"ok", "rejected"}, size \in FileSizes : FileInfoSettled(1, o, size)
    \/ StartCompression
    \/ \E r \in Runs : SmartProgressResolved(r)
    \/ \E r \in Runs, o \in CompressOutcomes, size \in CompressedSizes :
         CompressSettled(r, o, size)
    \/ \E r \in Runs, o \in {"ok", "rejected"} : RecordWithTimeSettled(r, o)
    \/ \E r \in Runs, o \in {"ok", "rejected"} : RecordFallbackSettled(r, o)

ListenerSpec == ListenerInit /\ [][ListenerNext]_vars

\* ------------------------------------------------------------------ intake
\* The collection with overlapping calls of addImages and handleExternalDrop,
\* lists of several paths, files with a size, and removals
IntakeNext ==
    \/ \E a \in Adders, filePaths \in DropLists : AddImages(a, filePaths)
    \/ \E a \in Adders, filePaths \in DropLists : HandleExternalDrop(a, filePaths)
    \/ \E a \in Adders, o \in {"ok", "rejected"}, size \in IntakeSizes :
         FileInfoSettled(a, o, size)
    \/ \E id \in Ids : RemoveImage(id)
    \/ ClearImages

IntakeSpec == Init /\ [][IntakeNext]_vars

\* ------------------------------------------------------------------ the hook
\* One instance of useDragDropGlobal mounted and cleaned up, the drops
\* delivered to its listener, and the intake they start
HookNext ==
    \/ Mount
    \/ \E o \in {"ok", "rejected"} : ImportSettled(o)
    \/ \E o \in {"ok", "rejected"} : RegisterSettled(o)
    \/ Cleanup
    \/ \E a \in Adders, filePaths \in DropLists : DragDropEvent(a, filePaths)
    \/ \E a \in Adders, o \in {"ok", "rejected"}, size \in IntakeSizes :
         FileInfoSettled(a, o, size)
    \/ \E id \in Ids : RemoveImage(id)

HookSpec == Init /\ [][HookNext]_vars

\* ------------------------------------------------------------------ the resolver alone
\* resolveCompressionParams called once with each combination of its arguments
ResolverInit ==
    /\ InitStore
    /\ bridge = [listeners |-> 0, listening |-> 0]
    /\ resolver \in {ResolverCall(o, l, f) :
                        o \in OutputFormats, l \in Levels, f \in ImageFormats}
    /\ hook = Unmounted

ResolverNext == Resolve

ResolverSpec == ResolverInit /\ [][ResolverNext]_vars

\* The store with backend events of any value: fractions (in thousandths) below
\* 0 and above 1 that are rounded to a percent below 0 and above 100
WideFractions == {-104, 1196}
ProgressNext ==
    \/ Next
    \/ \E id \in Ids, stage \in Stages, f \in WideFractions : BackendEvent(id, stage, f)

ProgressSpec == Init /\ [][ProgressNext]_vars

\* ------------------------------------------------------------------ claims
Range(s) == {s[i] : i \in DOMAIN s}
ActiveRuns == {r \in Runs : Active(r)}
StatusOf(id) == ImageOf(images, id).status
Terminal == {"completed", "error"}

\* C1: at most one invocation of startCompression is between setting
\* isProcessing = true and its final cleanup, in every reachable state.
C1_AtMostOneRun == Cardinality(ActiveRuns) <= 1

\* C2: a call of startCompression made while isProcessing is true leaves the
\* store as it is: images, compressionState, the guard, progress, the sessions
\* and the invocations (no backend call issued, nothing queued) are what they were.
C2_SkippedStartIsNoOp ==
    isProcessing => \A r \in Runs : StartResult(r) = Current

\* a state in which the guard is set and a call would otherwise start a run
C2_Witness ==
    /\ isProcessing
    /\ PendingImages(images) # <<>>
    /\ \E r \in Runs : LowestFree(r)
    /\ \E r \in Runs : Active(r)

\* C3: a run that has ended moved exactly the images of its snapshot from
\* pending to processing, one transition each, in snapshot order.
C3_ExactlyNTransitions ==
    \A r \in Runs : run[r].pc \in Ended => run[r].started = run[r].snap

\* C4: at most one image is processing and at most one compress_image call
\* is unresolved, in every reachable state.
C4_OneAtATime ==
    /\ Cardinality({i \in DOMAIN images : images[i].status = "processing"}) <= 1
    /\ Cardinality({r \in Runs : run[r].pc = "compress"}) <= 1

\* C5: the step in which an invocation of startCompression that set the guard
\* returns or throws leaves isProcessing false.
C5_GuardCleared ==
    [][\A r \in Runs : (Active(r) /\ run'[r].pc \in Ended) => ~isProcessing']_vars

\* an invocation left the loop by an escaping exception and the guard is clear
C5_Witness == \E r \in Runs : run[r].pc = "threw" /\ ~isProcessing

\* C6 (as stated): once every awaited call has settled and no run is left,
\* every image a run moved to processing that is still in the collection is
\* completed or in error.
IsProcessingId(id) == HasImage(images, id) /\ StatusOf(id) = "processing"
IsErrorId(id) == HasImage(images, id) /\ StatusOf(id) = "error"
C6_ReachesTerminal ==
    \A id \in Ids :
        IsProcessingId(id) ~> (~HasImage(images, id) \/ StatusOf(id) \in Terminal)

C7_FailureDoesNotAbort ==
    \A r \in Runs : run[r].pc \in Ended =>
        \A k \in DOMAIN run[r].snap :
            (HasImage(images, run[r].snap[k]) /\ StatusOf(run[r].snap[k]) = "error") =>
                \A j \in DOMAIN run[r].snap :
                    (j > k /\ HasImage(images, run[r].snap[j])) =>
                        /\ run[r].snap[j] \in Range(run[r].started)
                        /\ StatusOf(run[r].snap[j]) \in Terminal

\* C8: the step in which a run that set the guard ends leaves compressionState
\* 'completed'.
C8_EndsCompleted ==
    [][\A r \in Runs : (Active(r) /\ run'[r].pc \in Ended) =>
            compressionState' = "completed"]_vars

\* C9: every image of the collection has one of the four statuses, and its
\* compressedSize and outputPath are set if and only if it is completed.
C9_StatusAndData ==
    \A i \in DOMAIN images :
        /\ images[i].status \in {"pending", "processing", "completed", "error"}
        /\ images[i].status = "completed" =>
               (images[i].compressedSize # Undefined /\ images[i].outputPath # NoPath)
        /\ images[i].status # "completed" =>
               (images[i].compressedSize = Undefined /\ images[i].outputPath = NoPath)

\* a completed image beside one in error, after a reset was applied
C9_Witness ==
    /\ \E i \in DOMAIN images : images[i].status = "completed"
    /\ \E i \in DOMAIN images : images[i].status = "error"
    /\ compressionState = "idle"

\* C10: the fallback recording is attempted once for each rejected primary
\* recording and not otherwise; while a recording call of an image is pending
\* the image stays completed, and when the recording settles the loop goes on
\* to the next position of the snapshot.
Recording == {"recordWithTime", "recordFallback"}
C10_State ==
    \A r \in Runs :
        /\ run[r].fallbackCalls = run[r].primaryRejected
        /\ run[r].pc = "recordFallback" => run[r].fallbackCalls >= 1
        /\ (run[r].pc \in Recording /\ HasImage(images, run[r].snap[run[r].idx])) =>
               StatusOf(run[r].snap[run[r].idx]) = "completed"
C10_Step ==
    \A r \in Runs :
        (run[r].pc \in Recording /\ run'[r].pc \notin Recording) =>
            /\ run'[r].idx > run[r].idx
            /\ \A i \in DOMAIN images' :
                 (images'[i].id = run[r].snap[run[r].idx] /\ HasImage(images, images'[i].id))
                     => images'[i].status = "completed"
C10_Telemetry == [](C10_State) /\ [][C10_Step]_vars

\* a run went on to its second image after the primary recording of the first
\* was rejected and the fallback was attempted, the first image completed
C10_Witness ==
    \E r \in Runs :
        /\ run[r].pc = "smartProgress"
        /\ run[r].idx = 2
        /\ run[r].primaryRejected = 1
        /\ run[r].fallbackCalls = 1
        /\ HasImage(images, run[r].snap[1])
        /\ StatusOf(run[r].snap[1]) = "completed"

\* C11: when the compress_image call of a processing image settles with
\* success=false, with success=true and no result payload, or by rejecting,
\* the image is in error afterwards, its progress session is disposed as
\* errored, and the run does not go on to a recording call.
FailureOutcomes == {"failed", "noResult", "rejected"}
C11_FailureToError ==
    \A r \in Runs :
        (run[r].pc = "compress" /\ IsProcessingId(run[r].snap[run[r].idx])) =>
            \A o \in FailureOutcomes, size \in CompressedSizes :
                LET id == run[r].snap[run[r].idx]
                    res == AfterCompress(Store, run[r].snap, run[r].idx,
                                         run[r].started, o, size)
                IN  /\ ImageOf(res.st.images, id).status = "error"
                    /\ ImageOf(res.st.images, id).compressedSize = Undefined
                    /\ id \notin res.st.sessions
                    /\ res.exit \notin Recording

\* the only run there was has returned after the call of its one image failed:
\* the image is in error, its session is gone
C11_Witness ==
    /\ \E r \in Runs :
          /\ run[r].pc = "returned"
          /\ run[r].started = run[r].snap
          /\ Len(run[r].snap) = 1
          /\ IsErrorId(run[r].snap[1])
          /\ run[r].snap[1] \notin sessions
          /\ \A q \in Runs \ {r} : run[q].pc = "idle"
    /\ compressionState = "completed"

\* C12: once an image was removed while a run was processing it, a tick of its
\* progress session, a backend event for its id and the settling of its
\* compress_image call leave the store as it is for that id: the image is not
\* back in the collection and progressState has no new or changed entry for it.
RemovedWhileProcessing(r) ==
    /\ run[r].pc \in {"smartProgress", "compress"}
    /\ run[r].snap[run[r].idx] \in Range(run[r].started)
    /\ ~HasImage(images, run[r].snap[run[r].idx])
SameFor(st, id) ==
    /\ ~HasImage(st.images, id)
    /\ st.progressState[id] = progressState[id]
C12_RemovedIsIgnored ==
    \A r \in Runs : RemovedWhileProcessing(r) =>
        LET id == run[r].snap[run[r].idx]
        IN  /\ \A v \in SimTicks :
                  id \in sessions => SameFor(updateImageProgress(Store, id, v), id)
            /\ \A stage \in Stages, f \in EventFractions :
                  SameFor(onCompressionProgress(Store, id, stage, f), id)
            /\ run[r].pc = "compress" =>
                  \A o \in CompressOutcomes, size \in CompressedSizes :
                      SameFor(AfterCompress(Store, run[r].snap, run[r].idx,
                                            run[r].started, o, size).st, id)

\* C13: the progress of a processing image is an integer from 0 to 100 whatever
\* wrote it (the transition, a tick, a backend event, the forced 100), and in
\* the step in which an image becomes completed its progress is 100.
C13_State ==
    \A i \in DOMAIN images :
        images[i].status = "processing" => images[i].progress \in 0..100
C13_Step ==
    \A i \in DOMAIN images' :
        (/\ images'[i].status = "completed"
         /\ HasImage(images, images'[i].id)
         /\ ImageOf(images, images'[i].id).status # "completed")
            => images'[i].progress = 100
C13_Progress == [](C13_State) /\ [][C13_Step]_vars

\* an image is completed with progress 100 and another is processing with
\* progress 0 after an event for it carried a fraction that rounds to -10
C13_Witness ==
    \E i \in DOMAIN images :
        /\ images[i].status = "completed"
        /\ images[i].progress = 100
        /\ \E j \in DOMAIN images :
              /\ images[j].status = "processing"
              /\ images[j].progress = 0
              /\ progressState[images[j].id] = ProgressPercent(-104)
              /\ ProgressPercent(-104) = -10

\* C14: the settings are read anew for each image: in the step in which a run
\* moves an image to processing, the settings the run holds for that image's
\* compress_image call are the compressionSettings of the store at that moment.
Begins(r) == run'[r].pc = "smartProgress" /\ run[r].pc # "smartProgress"
C14_FreshSettings ==
    [][\A r \in Runs : Begins(r) => run'[r].settings = compressionSettings']_vars

\* C15: a run moves to processing only images of its snapshot, all of them in
\* the collection when it was taken; and in the step in which a run ends with
\* compressionState 'completed', every image added to the collection after the
\* snapshot is pending.
C15_State ==
    \A r \in Runs : Active(r) =>
        /\ Range(run[r].started) \subseteq Range(run[r].snap)
        /\ \A id \in Range(run[r].snap) : id < run[r].firstNew
C15_Step ==
    \A r \in Runs :
        (Active(r) /\ run'[r].pc = "returned" /\ compressionState' = "completed") =>
            \A i \in DOMAIN images' :
                images'[i].id >= run[r].firstNew => images'[i].status = "pending"
C15_SnapshotOnly == [](C15_State) /\ [][C15_Step]_vars

\* C16: the channel 'compression-progress' has at most one listener, so that
\* an event is handled once, whatever the number of calls of
\* initializeProgressListener.
C16_OneListener == bridge.listeners <= 1

\* The table of the resolver as the specification gives it
Returned == resolver.result # NoParams
WebpTable == [light |-> 100, balanced |-> 80, aggressive |-> 60]
JpegTable == [light |-> 92, balanced |-> 80, aggressive |-> 60]
Effective(o, f) == IF o = "keep" THEN (IF f = "HEIC" THEN "jpeg" ELSE "auto") ELSE o
RuleOf(e, f) ==
    IF e # "auto" THEN e
    ELSE IF f = "WEBP" THEN "webp" ELSE IF f = "JPEG" THEN "jpeg" ELSE "png"

\* C17: for every output format, level and source format the result of
\* resolveCompressionParams is that of the table: the webp rule gives quality
\* 100/80/60 and lossy unless light, the jpeg rule 92/80/60 and lossy, the png
\* rule 100 and not lossy; auto takes the webp rule for a WEBP source, the jpeg
\* rule for a JPEG source and the png rule otherwise; the returned format is the
\* effective format.
C17_Table ==
    Returned =>
        LET e == Effective(resolver.outputFormat, resolver.imageFormat)
            rule == RuleOf(e, resolver.imageFormat)
            res == resolver.result
        IN  /\ res.format = e
            /\ rule = "webp" => (/\ res.quality = WebpTable[resolver.level]
                                 /\ res.lossy = (resolver.level # "light"))
            /\ rule = "jpeg" => (res.quality = JpegTable[resolver.level] /\ res.lossy)
            /\ rule = "png" => (res.quality = 100 /\ ~res.lossy)

\* the call for jpeg at level light has returned quality 92, lossy
C17_Witness ==
    /\ resolver.outputFormat = "jpeg" /\ resolver.level = "light"
    /\ resolver.result = [quality |-> 92, format |-> "jpeg", lossy |-> TRUE]

\* C18: with outputFormat keep the returned format is 'auto' for every source
\* but HEIC; for a HEIC source it is 'jpeg', lossy, with the jpeg quality of the
\* level (quality 80 at level balanced); and a HEIC source never gives 'auto'.
C18_KeepAndHeic ==
    Returned =>
        LET res == resolver.result
            heic == resolver.imageFormat = "HEIC"
        IN  /\ (resolver.outputFormat = "keep" /\ ~heic) => res.format = "auto"
            /\ (resolver.outputFormat = "keep" /\ heic) =>
                   (/\ res.format = "jpeg"
                    /\ res.lossy
                    /\ res.quality = JpegTable[resolver.level])
            /\ heic => res.format # "auto"

\* the call for keep, balanced and a HEIC source has returned {80, jpeg, lossy}
C18_Witness ==
    /\ resolver.outputFormat = "keep" /\ resolver.level = "balanced"
    /\ resolver.imageFormat = "HEIC"
    /\ resolver.result = [quality |-> 80, format |-> "jpeg", lossy |-> TRUE]

\* C19: with outputFormat png the result is {quality 100, format png, not
\* lossy} for every level and every source format.
C19_Png ==
    (Returned /\ resolver.outputFormat = "png") =>
        resolver.result = [quality |-> 100, format |-> "png", lossy |-> FALSE]

\* the call for png at level aggressive and a WEBP source has returned
C19_Witness ==
    /\ resolver.outputFormat = "png" /\ resolver.level = "aggressive"
    /\ resolver.imageFormat = "WEBP"
    /\ Returned
    /\ resolver.result.quality = 100

\* C20: the parameters of every compress_image call (quality, format, lossy)
\* are the result of resolveCompressionParams for the output format and a
\* level of the settings the store holds and for the format of the image.
OutputFormatOf(settings) == IF settings.keepOriginalFormat THEN "keep" ELSE "webp"
SameParams(request, params) ==
    /\ "lossy" \in DOMAIN request
    /\ request.lossy = params.lossy
    /\ request.quality = params.quality
    /\ request.format = params.format
C20_CallIsResolved ==
    \A r \in Runs :
        (run[r].pc = "compress" /\ HasImage(images, run[r].snap[run[r].idx])) =>
            \E level \in Levels :
                SameParams(run[r].request,
                           resolveCompressionParams(
                               OutputFormatOf(compressionSettings), level,
                               FormatOf(ImageOf(images, run[r].snap[run[r].idx]).path)))

\* C21: whichever way get_file_information settles for a path of a call of
\* addImages, the image of that path is pushed as pending, with originalSize 0
\* when the lookup rejected; every path before it has its image, and after the
\* last path all of them are appended to the collection.
C21_LookupNotFatal ==
    \A a \in Adders : add[a].pc = "fileInfo" =>
        /\ Len(add[a].newImages) = add[a].k - 1
        /\ \A j \in DOMAIN add[a].newImages :
              /\ add[a].newImages[j].path = add[a].paths[j]
              /\ add[a].newImages[j].status = "pending"
        /\ \A o \in {"ok", "rejected"}, size \in IntakeSizes :
              LET newImages == Pushed(add[a], o, size)
                  last == newImages[Len(newImages)]
              IN  /\ Len(newImages) = add[a].k
                  /\ last.path = add[a].paths[add[a].k]
                  /\ last.status = "pending"
                  /\ last.originalSize = (IF o = "rejected" THEN 0 ELSE size)
C21_Appended ==
    \A a \in Adders :
        (add[a].pc = "fileInfo" /\ add'[a].pc = "idle") =>
            /\ Len(images') = Len(images) + Len(add[a].paths)
            /\ \A j \in DOMAIN add[a].paths :
                  /\ images'[Len(images) + j].path = add[a].paths[j]
                  /\ images'[Len(images) + j].status = "pending"
C21_Intake == [](C21_LookupNotFatal) /\ [][C21_Appended]_vars

\* a call with two paths appended both images, the first after a lookup that
\* rejected, the second with the size of its file
C21_Witness ==
    /\ Len(images) = 2
    /\ images[1].originalSize = 0 /\ images[1].status = "pending"
    /\ images[2].originalSize # 0 /\ images[2].status = "pending"
    /\ images[1].path # images[2].path
    /\ \A a \in Adders : add[a].pc = "idle"

\* C27: no two images of the collection have the same path.
C27_UniquePaths ==
    \A i, j \in DOMAIN images : i # j => images[i].path # images[j].path

\* C22: the quality of the settings is from 1 to 100 after any calls of the
\* settings actions, and so is the quality of every compress_image call.
C22_QualityInRange ==
    /\ compressionSettings.quality \in 1..100
    /\ \A r \in Runs : run[r].pc = "compress" => run[r].request.quality \in 1..100

\* C23: an image that is completed or in error keeps its status, its
\* compressedSize and its outputPath in every step that leaves it in the
\* collection.
C23_TerminalStays ==
    [][\A i \in DOMAIN images : images[i].status \in Terminal =>
          \A j \in DOMAIN images' : images'[j].id = images[i].id =>
              /\ images'[j].status = images[i].status
              /\ images'[j].compressedSize = images[i].compressedSize
              /\ images'[j].outputPath = images[i].outputPath]_vars

\* an image is completed and not in the snapshot of a run that is active
\* beside it, with the run of the image ended by an exception
C23_Witness ==
    \E i \in DOMAIN images :
        /\ images[i].status = "completed"
        /\ \E r \in Runs : Active(r) /\ images[i].id \notin Range(run[r].snap)
        /\ \E q \in Runs : run[q].pc = "threw" /\ images[i].id \in Range(run[q].started)

\* C24: every transition a caller is about to apply has its precondition: the
\* image whose compress_image call is pending is processing (toCompleted and
\* toError of the run, toError of the listener on an Error event for that call)
\* or gone, and the image the loop moves to processing next is pending or gone.
C24_PreconditionsHold ==
    \A r \in Runs :
        /\ run[r].pc = "compress" =>
               ~Rejects(images, run[r].snap[run[r].idx], "processing")
        /\ (run[r].pc \in {"compress"} \cup Recording /\ run[r].idx < Len(run[r].snap)) =>
               ~Rejects(images, run[r].snap[run[r].idx + 1], "pending")

\* C25: an Error event for an image that is processing while its compress_image
\* call is pending leaves that image in error, and the handling of the call's
\* result after it, whatever the result, does not leave the loop by an exception.
C25_ErrorEventIsSafe ==
    \A r \in Runs :
        (run[r].pc = "compress" /\ IsProcessingId(run[r].snap[run[r].idx])) =>
            \A f \in EventFractions :
                LET id == run[r].snap[run[r].idx]
                    after == onCompressionProgress(Store, id, "Error", f)
                IN  /\ ImageOf(after.images, id).status = "error"
                    /\ \A o \in CompressOutcomes, size \in CompressedSizes :
                          AfterCompress(after, run[r].snap, run[r].idx,
                                        run[r].started, o, size).exit # "threw"

\* C26: after an update of a processing image by a tick of its session or by a
\* backend event (stage other than Error), the progress of the image is the
\* clamped value of that update, whatever it was before: a smaller value
\* after a larger one lowers it.
C26_LastWriterWins ==
    \A i \in DOMAIN images : images[i].status = "processing" =>
        LET id == images[i].id
        IN  /\ \A v \in SimTicks :
                  id \in sessions =>
                      ImageOf(updateImageProgress(Store, id, v).images, id).progress
                          = Clamp(v)
            /\ \A f \in EventFractions \cup WideFractions :
                  ImageOf(onCompressionProgress(Store, id, "Compressing", f).images,
                          id).progress = Clamp(ProgressPercent(f))

\* an image is processing with progress 100 written by an event, and the tick
\* of its running session lowers it
C26_Witness ==
    \E i \in DOMAIN images :
        /\ images[i].status = "processing"
        /\ images[i].progress = 100
        /\ images[i].id \in sessions
        /\ \E v \in SimTicks :
              /\ v < 100
              /\ ImageOf(updateImageProgress(Store, images[i].id, v).images,
                         images[i].id).progress < images[i].progress

\* C28: once the cleanup of the hook has run, the listener the hook registered
\* is not subscribed (no drop can reach the callback), whenever the cleanup
\* ran relative to the import and to the registration.
C28_ListenerReleased == hook.cancelled => ~hook.subscribed

\* C29: while a recording call of image k of a run has not settled, the run
\* has moved no image after k to processing, and the guard isProcessing is set.
C29_TelemetryBlocks ==
    \A r \in Runs : run[r].pc \in Recording =>
        /\ \A id \in Range(run[r].started) :
              \E j \in 1..run[r].idx : run[r].snap[j] = id
        /\ isProcessing

\* currentView without the test of the images' statuses
currentView_StateOnly(imgs, state) ==
    IF Len(imgs) = 0 THEN "drop"
    ELSE IF state = "completed" THEN "success"
    ELSE "list"

\* currentView(): 'drop' for an empty collection, 'success' when the state is
\* 'completed' and every image is completed, 'list' otherwise
currentView(imgs, state) ==
    IF Len(imgs) = 0 THEN "drop"
    ELSE IF state = "completed" /\ \A i \in DOMAIN imgs : isCompleted(imgs[i])
         THEN "success"
    ELSE "list"

\* C30: the view is 'drop' iff the collection is empty, 'success' iff the
\* collection is non-empty, compressionState is 'completed' and every image has
\* status completed, and 'list' in every other state; a collection holding an
\* errored or a pending image never shows 'success'.
C30_ViewOfState ==
    LET view == currentView(images, compressionState)
        allCompleted == \A id \in Ids : HasImage(images, id) => StatusOf(id) = "completed"
    IN  /\ view \in {"drop", "success", "list"}
        /\ (view = "drop") <=> (images = <<>>)
        /\ (view = "success") <=>
              (images # <<>> /\ compressionState = "completed" /\ allCompleted)
        /\ (\E id \in Ids : HasImage(images, id) /\ StatusOf(id) \in {"error", "pending"})
              => view # "success"

\* a run has finished with an errored image next to a completed one: 'list'
C30_Witness ==
    /\ compressionState = "completed"
    /\ ActiveRuns = {}
    /\ \E id \in Ids : IsErrorId(id)
    /\ \E id \in Ids : HasImage(images, id) /\ StatusOf(id) = "completed"
    /\ currentView(images, compressionState) = "list"

\* a run has finished and an image added meanwhile is still pending: 'list'
C30_PendingAfterRun ==
    /\ compressionState = "completed"
    /\ ActiveRuns = {}
    /\ \E id \in Ids : HasImage(images, id) /\ StatusOf(id) = "pending"
    /\ \E id \in Ids : HasImage(images, id) /\ StatusOf(id) = "completed"
    /\ currentView(images, compressionState) = "list"

\* a run has finished with every image completed: 'success'
C30_Success ==
    /\ images # <<>>
    /\ currentView(images, compressionState) = "success"

====
